---- MODULE Spec2Model ----
(***************************************************************************)
(* Message bus and frame lifecycle of SDKInstance (docspace-sdk-js).       *)
(*                                                                         *)
(* The repository carries two revisions of the instance module that the    *)
(* specification is read against: src/src/instance/index.ts (2024) and     *)
(* src/unnamed/part_001 (2025).  The variable `revision` fixes, for one    *)
(* behaviour, which of the two is running; operators whose code differs    *)
(* between the revisions exist twice, the 2025 one with the suffix V2.     *)
(*                                                                         *)
(* One Instance is modelled together with the part of the browser it       *)
(* touches: the elements it looks up by id, the iframe load event, the     *)
(* window message listener and the messages posted into the iframe.        *)
(***************************************************************************)
EXTENDS Integers, Sequences, FiniteSets, TLC

\* Number of calls #executeMethod may accept in one behaviour.
MaxCalls == 3

\* Number of Instances the Registry may create in one behaviour.
MaxInstances == 2

\* Number of setIsLoaded commands after one initFrame.
MaxLoadedCalls == 2

\* Number of animation frames of setIsLoaded that may be pending.
MaxFrames == 2

Undefined == "undefined"
EmptyString == ""
EmptyRecord == "{}"

\* src/src/constants/index.ts
connectErrorText == "Message bus is not connected with frame"
unknownErrorText == "Unknown error occurred"
DefaultFrameId == "ds-frame"

\* The frame id the host uses for its frame; the only other id the Instance
\* can come to hold is the one of defaultConfig.
HostFrameId == "A"
FrameIds == {HostFrameId, DefaultFrameId}

\* enum MessageTypes
OnMethodReturn == "onMethodReturn"
OnEventReturn == "onEventReturn"
OnCallCommand == "onCallCommand"
ErrorType == "error"

\* enum InstanceMethods (setConfig is the exempt one, getFiles stands for
\* every other remote method: they differ only in name and parameters)
SetConfigMethod == "setConfig"
GetFilesMethod == "getFiles"

VARIABLES
    revision,     \* "index" (src/src/instance/index.ts) or "part_001"
    config,       \* this.config
    isConnected,  \* #isConnected
    callbacks,    \* #callbacks: sequence of callback ids
    tasks,        \* #tasks: sequence of deferred call envelopes
    listening,    \* window "message" listener #onMessage attached
    dom,          \* per frame id: what the document holds under that id
    classNames,   \* #classNames
    nextId,       \* next fresh callback id
    sent,         \* log: ids of the calls posted to an iframe, in order
    invoked,      \* log: ids of the callbacks invoked, in order
    fx,           \* what the last step did (observable effects)
    dropped,      \* ids pending when destroyFrame ran
    phase,        \* where the Instance is between destroyFrame and load
    burst,        \* calls issued back to back on an idle connected Instance
    answered,     \* number of posted calls the embedded application answered
    frames,       \* window.DocSpace.SDK.frames: frame id -> Instance (0: none)
    sdk,          \* the Registry (class SDK) and the Instances it created
    view,         \* what the frame shows: loader, CSP check, animation frames
    paths,        \* the path cache, config.rootPath and the path of the iframe
    resolver,     \* defaultConfig.filter and the last call of getFramePath
    loading       \* the loader, pending animation frames, onContentReady

vars == <<revision, config, isConnected, callbacks, tasks, listening, dom,
          classNames,
          nextId, sent, invoked, fx, dropped, phase, burst, answered,
          frames, sdk, view, paths, resolver, loading>>

(***************************************************************************)
(* Configuration records.  A field the caller did not supply is Undefined; *)
(* booleans and the events map are kept as strings so that every field     *)
(* can be compared with Undefined.                                         *)
(*   events: "null" = every handler null, "all" = onAppError and           *)
(*   onAppReady are functions.                                             *)
(***************************************************************************)
Cfg(f, w, m, e) == [frameId |-> f, waiting |-> w, mode |-> m, events |-> e]

EmptyCfg == Cfg(Undefined, Undefined, Undefined, Undefined)

\* src/src/constants/index.ts: defaultConfig
defaultConfig == Cfg(DefaultFrameId, "false", "manager", "null")

\* { ...a, ...b }
Spread(a, b) ==
    [k \in DOMAIN a |-> IF b[k] # Undefined THEN b[k] ELSE a[k]]

\* typeof this.config.events?.[name] === "function"
HasHandler(cfg, name) ==
    /\ cfg.events = "all"
    /\ name \in {"onAppError", "onAppReady"}

\* Configurations the host passes to the constructor: complete ones, as
\* TFrameConfig requires frameId and the Registry passes what it was given.
ConstructorConfigs ==
    {Cfg(HostFrameId, "false", "manager", e) : e \in {"null", "all"}}

\* Configurations the host passes to initFrame (frameId is required by
\* TFrameConfig).
HostConfigs ==
    {Cfg(HostFrameId, w, Undefined, e) : w \in {Undefined, "true"},
                                         e \in {Undefined, "all"}}

\* Configurations the host passes to setConfig.  waiting is read by
\* initFrame only, which takes it from its own argument or the defaults.
SetConfigArgs ==
    {Cfg(HostFrameId, Undefined, Undefined, e) : e \in {Undefined, "all"}}

(***************************************************************************)
(* The document.  Under a frame id the document holds nothing, the host's  *)
(* placeholder div, or the container the Instance put in its place; the    *)
(* container holds the iframe unless the frame was assembled in waiting    *)
(* state.  pendingLoad: the mounted iframe still has its load handler.     *)
(* cls is the element's className, text what a placeholder shows: the      *)
(* host's own content or config.destroyText.                               *)
(***************************************************************************)
HostClass == "host-class"
ContainerClass == "frame-container"

Elem(k, i, p, c, t) ==
    [kind |-> k, iframe |-> i, pendingLoad |-> p, cls |-> c, text |-> t]
NoElem == Elem("none", FALSE, FALSE, EmptyString, EmptyString)
Placeholder == Elem("placeholder", FALSE, FALSE, HostClass, "host")

\* the div destroyFrame puts in the container's place
ReplacementDiv(c) == Elem("placeholder", FALSE, FALSE, c, "destroyText")

\* the Instance modelled in full, as an entry of the frames map
Self == 1

\* document.getElementById(id) for a frame id
getElementById(d, id) ==
    IF id \notin DOMAIN d THEN "null"
    ELSE IF d[id].kind = "placeholder" THEN "div"
    ELSE IF d[id].kind = "container" /\ d[id].iframe THEN "iframe"
    ELSE "null"

\* document.getElementById(`${id}-container`) # null
hasContainer(d, id) == id \in DOMAIN d /\ d[id].kind = "container"

(***************************************************************************)
(* Effects of one step.                                                    *)
(***************************************************************************)
\*   op         the operation of the step
\*   posted     ids of the calls posted to an iframe, in order
\*   envelopes  for each posted call the frameId in its envelope and the
\*              id of the iframe whose contentWindow it was posted to
\*   cbs        ids of the callbacks invoked, in order
\*   appError   text handed to the host's onAppError, "none" if not invoked
\*   handler    name of the event handler invoked by #processEvent
\*   command    name of the method invoked by #executeCommand
\*   cbArg      what the callbacks were invoked with
\*   type       the data.type the switch of #onMessage saw
\*   event      the event name #processEvent received
\*   hostThrew  a handler of the host, once invoked, threw
\*   threw      an exception left the handler
\*   accepted   id of the call #executeMethod accepted (0: none)
\*   refused    #executeMethod refused the call
\*   data, decFrameId   the inbound message: class of e.data and the
\*              frameId of what #parseMessageData returned
\*   result     what initFrame returned: "null" or "iframe"
\*   mounted    the iframe initFrame created was put into the document
\*   destroyed, lost   destroyFrame ran, and the callbacks it cleared
NoFx == [op |-> "none", posted |-> <<>>, cbs |-> <<>>, appError |-> "none",
         cbArg |-> "none", type |-> "none", event |-> "none",
         hostThrew |-> FALSE,
         handler |-> "none", command |-> "none", threw |-> FALSE,
         accepted |-> 0, refused |-> FALSE,
         data |-> "none", decFrameId |-> "none",
         result |-> "none", mounted |-> FALSE,
         destroyed |-> FALSE, lost |-> <<>>, envelopes |-> <<>>]

\* The Instance and its surroundings as one record, so that a handler can
\* be written as a function from state to state and handlers can call each
\* other as the code does.  hostThrows: the handlers of the host throw when
\* they are invoked in this step.
St == [rev |-> revision, config |-> config, isConnected |-> isConnected,
       callbacks |-> callbacks, tasks |-> tasks, listening |-> listening,
       dom |-> dom, classNames |-> classNames, frames |-> frames,
       nextId |-> nextId, sent |-> sent, invoked |-> invoked,
       hostThrows |-> FALSE, fx |-> NoFx]

(***************************************************************************)
(* Errors.  An error is the object handed to #handleError: its message and *)
(* whether it is an instance of Error.                                     *)
(***************************************************************************)
Err(m, e) == [message |-> m, isError |-> e]

\* src/src/instance/index.ts #handleError
handleError(s, error) ==
    IF HasHandler(s.config, "onAppError")
    THEN [s EXCEPT !.fx.appError = error.message,
                   !.fx.hostThrew = s.hostThrows]
    ELSE s

\* src/unnamed/part_001 #handleError
handleErrorV2(s, error) ==
    IF HasHandler(s.config, "onAppError")
    THEN [s EXCEPT !.fx.appError =
              IF error.isError THEN error.message ELSE unknownErrorText,
                   !.fx.hostThrew = s.hostThrows]
    ELSE s

HandleError(s, error) ==
    IF s.rev = "index" THEN handleError(s, error) ELSE handleErrorV2(s, error)

(***************************************************************************)
(* Outbound calls.                                                         *)
(***************************************************************************)
\* #sendMessage posting to the iframe of the frameId the host constructed
\* the Instance with, whatever config.frameId is now
sendMessage_hostFrame(s, message) ==
    IF getElementById(s.dom, HostFrameId) # "iframe"
    THEN s
    ELSE [s EXCEPT !.sent = Append(@, message.id),
                   !.fx.posted = Append(@, message.id),
                   !.fx.envelopes =
                       Append(@, [frameId |-> s.config.frameId,
                                  iframe |-> HostFrameId])]

\* #sendMessage: post the envelope to the iframe found under config.frameId;
\* nothing is posted when that element is missing or is not an iframe (a
\* div has no contentWindow).
sendMessage(s, message) ==
    IF getElementById(s.dom, s.config.frameId) # "iframe"
    THEN s
    ELSE [s EXCEPT !.sent = Append(@, message.id),
                   !.fx.posted = Append(@, message.id),
                   !.fx.envelopes =
                       Append(@, [frameId |-> s.config.frameId,
                                  iframe |-> s.config.frameId])]

\* executeMethod with the deferral test off by one: a call is deferred only
\* behind two pending calls
executeMethod_offByOne(s, methodName) ==
    LET id == s.nextId
    IN  IF ~s.isConnected /\ methodName # SetConfigMethod
        THEN [HandleError(s, Err(connectErrorText, FALSE))
                 EXCEPT !.fx.refused = TRUE]
        ELSE LET s2 == [s EXCEPT !.nextId = id + 1,
                                 !.callbacks = Append(@, id),
                                 !.fx.accepted = id]
                 message == [type |-> "method", methodName |-> methodName,
                             id |-> id]
             IN  IF Len(s2.callbacks) > 2
                 THEN [s2 EXCEPT !.tasks = Append(@, message)]
                 ELSE sendMessage(s2, message)

\* #executeMethod(methodName, params, callback).  The callback of a call
\* that is accepted is the fresh id s.nextId; the callback of a refused
\* call is stored nowhere and takes no id.
executeMethod(s, methodName) ==
    LET id == s.nextId
    IN  IF ~s.isConnected /\ methodName # SetConfigMethod
        THEN [HandleError(s, Err(connectErrorText, FALSE))
                 EXCEPT !.fx.refused = TRUE]
        ELSE LET s2 == [s EXCEPT !.nextId = id + 1,
                                 !.callbacks = Append(@, id),
                                 !.fx.accepted = id]
                 message == [type |-> "method", methodName |-> methodName,
                             id |-> id]
             IN  IF Len(s2.callbacks) > 1
                 THEN [s2 EXCEPT !.tasks = Append(@, message)]
                 ELSE sendMessage(s2, message)

\* setConfig(config = defaultConfig)
setConfig(s, given, cfg) ==
    LET arg == IF given THEN cfg ELSE defaultConfig
    IN  executeMethod([s EXCEPT !.config = Spread(@, arg)], SetConfigMethod)

(***************************************************************************)
(* Frame lifecycle.                                                        *)
(***************************************************************************)
\* #prepareFrameConfig: { ...this.config, ...defaultConfig, ...config }
prepareFrameConfig(s, cfg) == Spread(Spread(s.config, defaultConfig), cfg)

\* #assembleFrame: the iframe is appended unless the frame is waiting
isMounted(cfg) == cfg.waiting # "true" \/ cfg.mode = "system"

\* src/src/instance/index.ts #setupContainer(targetId), called with an
\* element under the id: an existing container is replaced by a div without
\* class and the method runs again on that div; #classNames is the class of
\* the target it ends with.
setupContainer(s, f) ==
    [s EXCEPT !.classNames =
        IF hasContainer(s.dom, f) THEN EmptyString ELSE s.dom[f].cls]

\* src/unnamed/part_001 #createContainer(targetId): with an existing
\* container #classNames is left as it is
createContainer(s, f) ==
    [s EXCEPT !.classNames =
        IF hasContainer(s.dom, f) THEN s.classNames ELSE s.dom[f].cls]

SetupContainer(s, f) ==
    IF s.rev = "index" THEN setupContainer(s, f) ELSE createContainer(s, f)

\* initFrame registering the Instance before it looks for the placeholder
initFrame_registersFirst(s, cfg) ==
    LET merged == prepareFrameConfig(s, cfg)
        s1 == [s EXCEPT !.config = merged, !.frames[merged.frameId] = Self]
        f == merged.frameId
    IN  IF getElementById(s.dom, f) = "null"
        THEN [s1 EXCEPT !.fx.result = "null"]
        ELSE [SetupContainer(s1, f) EXCEPT
                        !.dom[f] = Elem("container", isMounted(merged),
                                        isMounted(merged), ContainerClass,
                                        EmptyString),
                        !.fx.result = "iframe",
                        !.fx.mounted = isMounted(merged)]

\* initFrame marking the bus connected as soon as the frame is assembled
initFrame_connectsEarly(s, cfg) ==
    LET merged == prepareFrameConfig(s, cfg)
        s1 == [s EXCEPT !.config = merged]
        f == merged.frameId
    IN  IF getElementById(s.dom, f) = "null"
        THEN [s1 EXCEPT !.fx.result = "null"]
        ELSE [SetupContainer(s1, f) EXCEPT
                        !.dom[f] = Elem("container", isMounted(merged),
                                        isMounted(merged), ContainerClass,
                                        EmptyString),
                        !.frames[f] = Self,
                        !.isConnected = TRUE,
                        !.fx.result = "iframe",
                        !.fx.mounted = isMounted(merged)]

\* initFrame(config): #prepareFrameConfig, #setupContainer, #setupIframe,
\* #setupFrameEventHandlers, #assembleFrame, #registerFrame.  An existing
\* container is first replaced by a restored target, so the outcome is the
\* same new container.
initFrame(s, cfg) ==
    LET merged == prepareFrameConfig(s, cfg)
        s1 == [s EXCEPT !.config = merged]
        f == merged.frameId
    IN  IF getElementById(s.dom, f) = "null"
        THEN [s1 EXCEPT !.fx.result = "null"]
        ELSE [SetupContainer(s1, f) EXCEPT
                        !.dom[f] = Elem("container", isMounted(merged),
                                        isMounted(merged), ContainerClass,
                                        EmptyString),
                        !.frames[f] = Self,
                        !.fx.result = "iframe",
                        !.fx.mounted = isMounted(merged)]

\* handleFrameLoad, the load handler #setupFrameEventHandlers registers on
\* the iframe mounted under f
handleFrameLoad(s, f) ==
    [s EXCEPT !.listening = TRUE,
              !.isConnected = TRUE,
              !.dom[f].pendingLoad = FALSE]

\* destroyFrame emptying the callback queue and leaving the task queue as
\* it is
destroyFrame_keepTasks(s) ==
    LET f == s.config.frameId
        d == IF hasContainer(s.dom, f)
             THEN [s.dom EXCEPT ![f] = ReplacementDiv(s.classNames)]
             ELSE s.dom
    IN  [s EXCEPT !.dom = d,
                  !.frames[f] = 0,
                  !.listening = FALSE,
                  !.isConnected = FALSE,
                  !.callbacks = <<>>,
                  !.fx.destroyed = TRUE,
                  !.fx.lost = s.callbacks]

\* destroyFrame leaving the callback queue as it is
destroyFrame_keepCallbacks(s) ==
    LET f == s.config.frameId
        d == IF hasContainer(s.dom, f)
             THEN [s.dom EXCEPT ![f] = ReplacementDiv(s.classNames)]
             ELSE s.dom
    IN  [s EXCEPT !.dom = d,
                  !.frames[f] = 0,
                  !.listening = FALSE,
                  !.isConnected = FALSE,
                  !.tasks = <<>>,
                  !.fx.destroyed = TRUE,
                  !.fx.lost = s.callbacks]

\* destroyFrame()
destroyFrame(s) ==
    LET f == s.config.frameId
        d == IF hasContainer(s.dom, f)
             THEN [s.dom EXCEPT ![f] = ReplacementDiv(s.classNames)]
             ELSE s.dom
    IN  [s EXCEPT !.dom = d,
                  !.frames[f] = 0,
                  !.listening = FALSE,
                  !.isConnected = FALSE,
                  !.callbacks = <<>>,
                  !.tasks = <<>>,
                  !.fx.destroyed = TRUE,
                  !.fx.lost = s.callbacks]

(***************************************************************************)
(* Inbound messages.  A message event e carries data that is not a string, *)
(* or a text; a text is described by what JSON.parse makes of it:          *)
(*   json = "invalid"  JSON.parse throws                                   *)
(*   json = "null"     the text null                                       *)
(*   json = "primitive" a number, a string or a boolean                    *)
(*   json = "object"   an object with the fields frameId, type, name and   *)
(*                     payload, each Undefined when the key is missing.    *)
(* name is commandName (onCallCommand) or eventReturnData.event            *)
(* (onEventReturn); payload is methodReturnData, eventReturnData, error or *)
(* commandData: Undefined when missing, for commandData the frameId of the *)
(* configuration object { frameId: payload }.                              *)
(***************************************************************************)
Msg(str, j, f, t, n, p) ==
    [string |-> str, json |-> j, frameId |-> f, type |-> t, name |-> n,
     payload |-> p]

\* typeof this[name] === "function"
IsMethod(name) ==
    name \in {"setIsLoaded", "destroyFrame", "initFrame", "setConfig",
              "getFiles"}

\* Messages addressed to frame id f, one for every branch of the
\* dispatcher.
MessagesTo(f) ==
    {Msg(TRUE, "object", f, OnMethodReturn, Undefined, "data"),
     Msg(TRUE, "object", f, OnMethodReturn, Undefined, Undefined),
     Msg(TRUE, "object", f, OnEventReturn, "onAppReady", "data"),
     Msg(TRUE, "object", f, OnEventReturn, "onNoAccess", "data"),
     Msg(TRUE, "object", f, OnEventReturn, Undefined, Undefined),
     Msg(TRUE, "object", f, OnCallCommand, "setIsLoaded", Undefined),
     Msg(TRUE, "object", f, OnCallCommand, "destroyFrame", Undefined),
     Msg(TRUE, "object", f, OnCallCommand, "initFrame", HostFrameId),
     Msg(TRUE, "object", f, OnCallCommand, "setConfig", Undefined),
     Msg(TRUE, "object", f, OnCallCommand, "getFiles", Undefined),
     Msg(TRUE, "object", f, OnCallCommand, "noSuchMethod", Undefined),
     Msg(TRUE, "object", f, OnCallCommand, Undefined, Undefined),
     Msg(TRUE, "object", f, ErrorType, Undefined, "message"),
     Msg(TRUE, "object", f, ErrorType, Undefined, Undefined),
     Msg(TRUE, "object", f, "unknownType", Undefined, Undefined)}

MessageEvents ==
    {Msg(FALSE, "none", Undefined, Undefined, Undefined, Undefined)}
    \cup {Msg(TRUE, j, Undefined, Undefined, Undefined, Undefined) :
             j \in {"invalid", "null", "primitive"}}
    \cup UNION {MessagesTo(f) : f \in FrameIds}
    \cup {Msg(TRUE, "object", Undefined, OnMethodReturn, Undefined, "data")}

\* The messages the window delivers while the Instance's frameId is f: the
\* malformed ones, every message addressed to f, and of the messages
\* addressed to another frame one of each kind.
Inbound(f) ==
    {e \in MessageEvents :
        \/ e.frameId \in {f, Undefined}
        \/ /\ e.payload # Undefined
           /\ e.name \in {Undefined, "onAppReady", "initFrame"}}

\* What a handler sees of a parsed value: its kind and its fields.
Parsed(v, f, t, n, p) ==
    [v |-> v, frameId |-> f, type |-> t, name |-> n, payload |-> p]

\* JSON.parse(text): ok = FALSE when it throws
JSONparse(e) ==
    IF e.json = "invalid"
    THEN [ok |-> FALSE,
          value |-> Parsed("none", Undefined, Undefined, Undefined, Undefined)]
    ELSE IF e.json = "object"
    THEN [ok |-> TRUE,
          value |-> Parsed("object", e.frameId, e.type, e.name, e.payload)]
    ELSE [ok |-> TRUE,
          value |-> Parsed(e.json, Undefined, Undefined, Undefined, Undefined)]

\* error.message of the envelope (part_001 appends the parser's detail)
parseErrorText == "Invalid message format"

\* the envelope both revisions return from the catch block
ErrorEnvelope ==
    Parsed("object", "error", ErrorType, "parseMessageData", parseErrorText)

\* src/src/instance/index.ts #parseMessageData
parseMessageData(e) ==
    LET r == JSONparse(e)
    IN  IF r.ok THEN r.value ELSE ErrorEnvelope

\* src/unnamed/part_001 #parseMessageData
parseMessageDataV2(e) ==
    LET r == JSONparse(e)
    IN  IF ~r.ok THEN ErrorEnvelope
        ELSE IF r.value.v # "object" THEN ErrorEnvelope
        ELSE IF r.value.frameId = Undefined
             THEN [r.value EXCEPT !.frameId = EmptyString]
             ELSE r.value

\* handleMethodResponse invoking the oldest callback and leaving it in the
\* queue
handleMethodResponse_keep(s, data) ==
    LET s1 == IF s.callbacks # <<>>
              THEN [s EXCEPT !.invoked = Append(@, Head(s.callbacks)),
                             !.fx.cbs = Append(@, Head(s.callbacks)),
                             !.fx.cbArg = data.payload]
              ELSE s
    IN  IF Len(s1.tasks) > 0
        THEN sendMessage([s1 EXCEPT !.tasks = Tail(@)], Head(s1.tasks))
        ELSE s1

\* handleMethodResponse taking the newest callback (pop) instead of the
\* oldest (shift)
handleMethodResponse_pop(s, data) ==
    LET n == Len(s.callbacks)
        s1 == IF n > 0
              THEN [s EXCEPT !.callbacks = SubSeq(@, 1, n - 1),
                             !.invoked = Append(@, s.callbacks[n]),
                             !.fx.cbs = Append(@, s.callbacks[n]),
                             !.fx.cbArg = data.payload]
              ELSE s
    IN  IF Len(s1.tasks) > 0
        THEN sendMessage([s1 EXCEPT !.tasks = Tail(@)], Head(s1.tasks))
        ELSE s1

\* src/src/instance/index.ts #handleMethodResponse:
\* callback?.(data.methodReturnData!)
handleMethodResponse(s, data) ==
    LET s1 == IF s.callbacks # <<>>
              THEN [s EXCEPT !.callbacks = Tail(@),
                             !.invoked = Append(@, Head(s.callbacks)),
                             !.fx.cbs = Append(@, Head(s.callbacks)),
                             !.fx.cbArg = data.payload]
              ELSE s
    IN  IF Len(s1.tasks) > 0
        THEN sendMessage([s1 EXCEPT !.tasks = Tail(@)], Head(s1.tasks))
        ELSE s1

\* src/unnamed/part_001 #handleMethodResponse:
\* callback(data.methodReturnData || {})
handleMethodResponseV2(s, data) ==
    LET s1 == IF s.callbacks # <<>>
              THEN [s EXCEPT !.callbacks = Tail(@),
                             !.invoked = Append(@, Head(s.callbacks)),
                             !.fx.cbs = Append(@, Head(s.callbacks)),
                             !.fx.cbArg = IF data.payload = Undefined
                                          THEN EmptyRecord
                                          ELSE data.payload]
              ELSE s
    IN  IF Len(s1.tasks) > 0
        THEN sendMessage([s1 EXCEPT !.tasks = Tail(@)], Head(s1.tasks))
        ELSE s1

HandleMethodResponse(s, data) ==
    IF s.rev = "index" THEN handleMethodResponse(s, data)
    ELSE handleMethodResponseV2(s, data)

\* processEvent calling whatever the events map holds under the name
processEvent_callsAnyway(s, data) ==
    IF data.name = Undefined THEN s
    ELSE [s EXCEPT !.fx.event = data.name,
                   !.fx.handler = data.name,
                   !.fx.hostThrew = TRUE]

\* #processEvent(eventData): the handler is called inside try/catch in both
\* revisions
processEvent(s, data) ==
    IF data.name = Undefined THEN s
    ELSE LET s1 == [s EXCEPT !.fx.event = data.name]
         IN  IF HasHandler(s.config, data.name)
             THEN [s1 EXCEPT !.fx.handler = data.name,
                             !.fx.hostThrew = s.hostThrows]
             ELSE s1

\* the argument a command receives: commandData
CommandCfg(data) ==
    IF data.payload = Undefined THEN EmptyCfg
    ELSE Cfg(data.payload, Undefined, Undefined, Undefined)

\* #executeCommand: this[data.commandName].call(this, data.commandData).
\* setIsLoaded changes the frame's style only, which is not part of the
\* state here.
executeCommand(s, data) ==
    IF data.name = Undefined \/ ~IsMethod(data.name) THEN s
    ELSE LET s1 == [s EXCEPT !.fx.command = data.name]
         IN  CASE data.name = "destroyFrame" -> destroyFrame(s1)
               [] data.name = "initFrame" -> initFrame(s1, CommandCfg(data))
               [] data.name = "setConfig" ->
                      setConfig(s1, data.payload # Undefined, CommandCfg(data))
               [] data.name = "getFiles" -> executeMethod(s1, GetFilesMethod)
               [] OTHER -> s1

\* the switch of #onMessage; fx.type is the data.type it switches on
dispatch(s0, data) ==
    LET s == [s0 EXCEPT !.fx.type = data.type]
    IN  CASE data.type = OnMethodReturn -> HandleMethodResponse(s, data)
          [] data.type = OnEventReturn ->
                 IF data.payload # Undefined THEN processEvent(s, data)
                 ELSE s
          [] data.type = OnCallCommand -> executeCommand(s, data)
          [] data.type = ErrorType ->
                 IF data.payload # Undefined
                 THEN HandleError(s, Err(data.payload, FALSE))
                 ELSE s
          [] OTHER -> s

Digest(s, e, data) ==
    [s EXCEPT !.fx.data = IF e.string THEN e.json ELSE "nonstring",
              !.fx.decFrameId = data.frameId]

\* an exception thrown by onAppError, which #handleError calls outside any
\* try block, is leaving the switch
Escapes(s) == s.fx.hostThrew /\ s.fx.appError # "none"

\* onMessage dispatching whatever frameId the message carries
onMessage_noFilter(s, e) ==
    IF ~e.string
    THEN [s EXCEPT !.fx.data = "nonstring"]
    ELSE LET data == parseMessageData(e)
             s1 == Digest(s, e, data)
             r == dispatch(s1, data)
         IN  IF data.v = "null" THEN [s1 EXCEPT !.fx.threw = TRUE]
             ELSE [r EXCEPT !.fx.threw = Escapes(r)]

\* src/src/instance/index.ts #onMessage: reading data.frameId of null
\* throws a TypeError, which leaves the listener, and so does whatever the
\* switch throws
onMessage(s, e) ==
    IF ~e.string
    THEN [s EXCEPT !.fx.data = "nonstring"]
    ELSE LET data == parseMessageData(e)
             s1 == Digest(s, e, data)
             r == dispatch(s1, data)
         IN  IF data.v = "null" THEN [s1 EXCEPT !.fx.threw = TRUE]
             ELSE IF data.frameId # s.config.frameId THEN s1
             ELSE [r EXCEPT !.fx.threw = Escapes(r)]

\* src/unnamed/part_001 #onMessage: what the switch throws is caught and
\* handed to #handleError, whose call of onAppError is outside the try
\* block
onMessageV2(s, e) ==
    IF ~e.string
    THEN [s EXCEPT !.fx.data = "nonstring"]
    ELSE LET data == parseMessageDataV2(e)
             s1 == Digest(s, e, data)
             r == dispatch(s1, data)
             caught == handleErrorV2(r, Err("thrown", TRUE))
         IN  IF data.frameId # s.config.frameId THEN s1
             ELSE IF Escapes(r)
             THEN [caught EXCEPT !.fx.threw = Escapes(caught)]
             ELSE r

OnMessage(s, e) ==
    IF s.rev = "index" THEN onMessage(s, e) ELSE onMessageV2(s, e)

\* what the running revision decodes e to
ParseMessageData(e) ==
    IF revision = "index" THEN parseMessageData(e) ELSE parseMessageDataV2(e)

\* the method-return the embedded application sends for a call posted to it
MethodReturn(f) == Msg(TRUE, "object", f, OnMethodReturn, Undefined, "data")

\* the call ids a message needs: a command that reaches #executeMethod
NeedsId(e) ==
    /\ e.string /\ e.json = "object" /\ e.type = OnCallCommand
    /\ e.name \in {"setConfig", "getFiles"}

(***************************************************************************)
(* History kept for the properties.                                        *)
(***************************************************************************)
Range(q) == {q[i] : i \in 1..Len(q)}

Min(a, b) == IF a < b THEN a ELSE b

\* The Connected state of the lifecycle: the flag is set and the iframe
\* mounted under the Instance's frameId has fired its load event.
ConnectedState(s) ==
    /\ s.isConnected
    /\ getElementById(s.dom, s.config.frameId) = "iframe"
    /\ ~s.dom[s.config.frameId].pendingLoad

\* phase.st is "destroyed" from destroyFrame until the next initFrame
\* (direct: nothing else has happened since), "reinit" from an initFrame
\* that directly follows destroyFrame on the same frameId and builds a
\* frame until the iframe it mounted fires load, and "other" otherwise.
OtherPhase == [st |-> "other", frameId |-> Undefined, direct |-> FALSE]

NextPhase(r, op, f) ==
    IF r.fx.destroyed
    THEN [st |-> "destroyed", frameId |-> config.frameId, direct |-> TRUE]
    ELSE IF r.fx.result # "none"
    THEN IF /\ phase.st = "destroyed" /\ phase.direct
            /\ r.fx.result = "iframe"
            /\ r.config.frameId = phase.frameId
         THEN [st |-> "reinit", frameId |-> phase.frameId, direct |-> TRUE]
         ELSE OtherPhase
    ELSE IF op = "load" /\ phase.st = "reinit" /\ f = phase.frameId
    THEN OtherPhase
    ELSE IF phase.st = "destroyed" THEN [phase EXCEPT !.direct = FALSE]
    ELSE phase

IdleBurst == [active |-> FALSE, calls |-> <<>>, rets |-> 0,
              sentBase |-> 0, invBase |-> 0]

NextBurst(r, op) ==
    IF ~(/\ ConnectedState(r)
         /\ ~r.fx.destroyed
         /\ r.fx.result = "none"
         /\ r.config.frameId = config.frameId)
    THEN IdleBurst
    ELSE IF op \in {"call", "setConfig"} /\ r.fx.accepted # 0
    THEN IF callbacks = <<>>
         THEN [active |-> TRUE, calls |-> <<r.fx.accepted>>, rets |-> 0,
               sentBase |-> Len(sent), invBase |-> Len(invoked)]
         ELSE IF burst.active /\ burst.rets = 0
         THEN [burst EXCEPT !.calls = Append(@, r.fx.accepted)]
         ELSE IdleBurst
    ELSE IF op = "message" /\ r.fx.accepted # 0 THEN IdleBurst
    ELSE IF op = "message" /\ r.fx.cbs # <<>>
    THEN IF burst.active /\ burst.rets < Len(burst.calls)
         THEN [burst EXCEPT !.rets = @ + 1]
         ELSE IdleBurst
    ELSE burst

\* The step from the current state is the listener handling e, the host's
\* handlers throwing or not as `throws` says.
Delivered(e, throws) ==
    LET r == OnMessage([St EXCEPT !.hostThrows = throws], e)
    IN  /\ listening
        /\ fx'.op = "message"
        /\ fx'.data = (IF e.string THEN e.json ELSE "nonstring")
        /\ fx' = [r.fx EXCEPT !.op = "message"]
        /\ config' = r.config
        /\ isConnected' = r.isConnected
        /\ callbacks' = r.callbacks
        /\ tasks' = r.tasks
        /\ listening' = r.listening
        /\ dom' = r.dom
        /\ sent' = r.sent

\* The step that takes the Instance and the document to r.
Apply(r, op, f) ==
    /\ config' = r.config
    /\ isConnected' = r.isConnected
    /\ callbacks' = r.callbacks
    /\ tasks' = r.tasks
    /\ listening' = r.listening
    /\ dom' = r.dom
    /\ classNames' = r.classNames
    /\ frames' = r.frames
    /\ nextId' = r.nextId
    /\ sent' = r.sent
    /\ invoked' = r.invoked
    /\ fx' = [r.fx EXCEPT !.op = op]
    /\ dropped' = dropped \cup Range(r.fx.lost)
    /\ phase' = NextPhase(r, op, f)
    /\ burst' = NextBurst(r, op)
    /\ UNCHANGED revision

(***************************************************************************)
(* What the frame shows.  The loader is the element `${frameId}-loader`    *)
(* #assembleFrame appends to the container (noLoader is false in manager   *)
(* mode); checkCSP is true in defaultConfig, so #createIframe schedules    *)
(* the CSP check in an animation frame.                                    *)
(*   loader     the loader element is in the document                      *)
(*   csp        the CSP check: "none", "raf" (animation frame requested),  *)
(*              "fetch" (validateCSP pending), "accepted", "rejected"      *)
(*   events     config.events of the configuration #createIframe was given *)
(*   appError   text the catch handler handed to onAppError                *)
(*   stage      setIsLoaded: "idle", "raf1" (first animation frame         *)
(*              requested), "raf2" (the frame that removes the loader)     *)
(*   ready      onContentReady was reached                                 *)
(***************************************************************************)
NoView == [loader |-> FALSE, csp |-> "none", events |-> "null",
           appError |-> "none", stage |-> "idle", ready |-> FALSE]

\* e.message of the Error validateCSP rejects with
cspErrorText == "CSP validation failed"

\* what initFrame leaves on the page once it returned r: #createIframe
\* requested the frame of the CSP check and #assembleFrame appended a loader
assembledView(r, v) ==
    IF r.fx.result = "iframe"
    THEN [NoView EXCEPT !.loader = TRUE, !.csp = "raf",
                        !.events = r.config.events]
    ELSE v

\* setIsLoaded(): returns unless an element with the frameId is in the
\* document, otherwise requests the first animation frame
setIsLoaded(s, v) ==
    IF getElementById(s.dom, s.config.frameId) = "null" THEN v
    ELSE [v EXCEPT !.stage = "raf1"]

\* the catch handler of validateCSP(config.src)
cspRejected(s, v) ==
    setIsLoaded(s, [v EXCEPT !.csp = "rejected",
                             !.appError =
                                 IF HasHandler([events |-> v.events],
                                               "onAppError")
                                 THEN cspErrorText ELSE "none"])

\* the first animation frame of setIsLoaded: a loader that is found is
\* faded and its removal requested, otherwise onContentReady is called
loaderFrame(v) ==
    IF v.loader THEN [v EXCEPT !.stage = "raf2"]
    ELSE [v EXCEPT !.stage = "idle", !.ready = TRUE]

\* removeLoader
removeLoader(v) ==
    [v EXCEPT !.stage = "idle", !.loader = FALSE, !.ready = TRUE]

(***************************************************************************)
(* The path of the iframe.  #createIframe sets iframe.src to config.src    *)
(* followed by a path it takes from the static SDKInstance._iframeCache    *)
(* .pathCache, or from getFramePath(config) when the cache has no entry    *)
(* under the key of the configuration.  Of the fields getFramePath reads   *)
(* the model keeps mode and rootPath; config.id is never set, and the      *)
(* filter stays the one of defaultConfig.                                  *)
(*   pathCache  the path stored under each cache key, NoPath when none     *)
(*   rootPath   config.rootPath                                            *)
(*   src        the path in the src of the iframe #createIframe made last  *)
(***************************************************************************)
NoPath == <<>>

\* src/src/constants/index.ts: defaultConfig.rootPath
defaultRootPath == "/rooms/shared/"

RootPaths == {defaultRootPath, "/rooms/personal/"}

\* `${config.mode}_${config.id || ""}_${config.frameId}`
cacheKey(cfg) == <<cfg.mode, EmptyString, cfg.frameId>>

CacheKeys == {<<m, EmptyString, f>> : m \in {"manager", "editor"},
                                      f \in FrameIds}

NoPaths == [pathCache |-> [k \in CacheKeys |-> NoPath],
            rootPath |-> defaultRootPath,
            src |-> NoPath]

\* getFramePath(config): in manager mode the root path followed by the
\* filter, in editor mode the editor's path, which has no root path in it
getFramePath(cfg, rootPath) ==
    CASE cfg.mode = "manager" -> <<rootPath, "filter?">>
      [] cfg.mode = "editor" -> <<"/doceditor?">>
      [] OTHER -> <<rootPath>>

\* #createIframe, the path of the iframe: the cached one, or else the one
\* getFramePath computes, which is then cached
createIframe(p, cfg) ==
    LET key == cacheKey(cfg)
        cached == p.pathCache[key]
        path == IF cached # NoPath THEN cached
                ELSE getFramePath(cfg, p.rootPath)
    IN  [p EXCEPT !.pathCache[key] = path, !.src = path]

\* what initFrame(config) does to the paths when config.rootPath is
\* rootPath: #prepareFrameConfig takes an rootPath that is not given from
\* defaultConfig, #setupContainer deletes the cache entry of the new
\* configuration when it finds a container to replace, and #setupIframe
\* calls #createIframe unless no target was found.  s is the Instance as
\* initFrame finds it, r as it leaves it.
initFramePaths(s, r, rootPath, p) ==
    LET p1 == [p EXCEPT !.rootPath = IF rootPath # Undefined THEN rootPath
                                     ELSE defaultRootPath]
        f == r.config.frameId
        p2 == IF hasContainer(s.dom, f)
              THEN [p1 EXCEPT !.pathCache[cacheKey(r.config)] = NoPath]
              ELSE p1
    IN  IF r.fx.result = "iframe" THEN createIframe(p2, r.config) ELSE p1

\* what destroyFrame() does to the paths: src/unnamed/part_001 deletes the
\* cache entry of the current configuration when it finds the container,
\* src/src/instance/index.ts leaves the cache alone
destroyFramePaths(s, p) ==
    IF s.rev = "part_001" /\ hasContainer(s.dom, s.config.frameId)
    THEN [p EXCEPT !.pathCache[cacheKey(s.config)] = NoPath]
    ELSE p

(***************************************************************************)
(* The Registry: class SDK of src/src/sdk/index.ts (revision "index") and  *)
(* of src/unnamed/part_007 (revision "part_001"), the object the entry     *)
(* point stores in window.DocSpace.SDK.  Of the Instances it creates only  *)
(* what the Registry reads is kept: config.frameId and the entry in the    *)
(* frames map; whether initFrame finds its placeholder is the caller's     *)
(* choice `found`.                                                         *)
(***************************************************************************)
\* enum SDKMode
Modes == {"manager", "editor", "viewer", "room-selector", "file-selector",
          "system"}

\* the entry points of the Registry and the mode each wrapper forces
Wrappers == {"initManager", "initViewer", "initEditor", "initRoomSelector",
             "initFileSelector", "initSystem"}

WrapperMode(w) ==
    CASE w = "initManager" -> "manager"
      [] w = "initViewer" -> "viewer"
      [] w = "initEditor" -> "editor"
      [] w = "initRoomSelector" -> "room-selector"
      [] w = "initFileSelector" -> "file-selector"
      [] w = "initSystem" -> "system"

\* Configurations the host passes to the Registry.
SdkConfigs ==
    {Cfg(f, Undefined, m, Undefined) :
        f \in FrameIds, m \in {Undefined, "viewer"}}

\*   op       the Registry operation of the step
\*   arg      the configuration the caller passed
\*   ret      the Instance returned (0: none)
\*   initOn, initCfg   the Instance initFrame was invoked on, and its argument
\*   made     an Instance was constructed
\*   again    the step before was a call of init with the same frameId
\*   destroyed   the Instance destroyFrame was invoked on (0: none)
NoSdkFx == [op |-> "none", arg |-> EmptyCfg, ret |-> 0, initOn |-> 0,
            initCfg |-> EmptyCfg, made |-> FALSE, again |-> FALSE,
            destroyed |-> 0]

\* new SDK(): no Instances; frameIds[i] is config.frameId of Instance i
\* once it has been constructed
NewSDK == [instances |-> <<>>,
           frameIds |-> [i \in 1..MaxInstances |-> Undefined],
           created |-> 0,
           fx |-> NoSdkFx]

\* The Registry, the frames map and the Instances as one record.
SdkSt == [rev |-> revision, instances |-> sdk.instances,
          frameIds |-> sdk.frameIds, created |-> sdk.created,
          frames |-> frames, fx |-> NoSdkFx]

\* instance.initFrame(cfg) as the Registry sees it: #prepareFrameConfig and,
\* when the placeholder is found, #registerFrame
instanceInitFrame(k, i, cfg, found) ==
    LET this == [config |-> [EmptyCfg EXCEPT !.frameId = k.frameIds[i]]]
        merged == prepareFrameConfig(this, cfg)
        k1 == [k EXCEPT !.frameIds[i] = merged.frameId,
                        !.fx.initOn = i,
                        !.fx.initCfg = cfg]
    IN  IF found THEN [k1 EXCEPT !.frames[merged.frameId] = i] ELSE k1

\* this.instances.find((i) => i.config.frameId === config.frameId)
findInstance(k, f) ==
    LET hits == {n \in 1..Len(k.instances) :
                    k.frameIds[k.instances[n]] = f}
    IN  IF hits = {} THEN 0
        ELSE k.instances[CHOOSE n \in hits : \A m \in hits : n <= m]

\* new SDKInstance(config)
newInstance(k, cfg) ==
    [k EXCEPT !.created = @ + 1,
              !.frameIds[k.created + 1] = cfg.frameId,
              !.fx.made = TRUE]

\* init that constructs an Instance on every call
init_alwaysNew(k, cfg, found) ==
    LET i == k.created + 1
        k1 == instanceInitFrame(newInstance(k, cfg), i, cfg, found)
    IN  [k1 EXCEPT !.instances = Append(@, i), !.fx.ret = i]

\* src/src/sdk/index.ts SDK.init
init(k, cfg, found) ==
    LET existInstance == findInstance(k, cfg.frameId)
    IN  IF existInstance # 0
        THEN [instanceInitFrame(k, existInstance, cfg, found)
                 EXCEPT !.fx.ret = existInstance]
        ELSE LET i == k.created + 1
                 k1 == instanceInitFrame(newInstance(k, cfg), i, cfg, found)
             IN  [k1 EXCEPT !.instances = Append(@, i), !.fx.ret = i]

\* src/unnamed/part_007 SDK.init
initV2(k, cfg, found) ==
    LET existingInstance == k.frames[cfg.frameId]
    IN  IF existingInstance # 0
        THEN [instanceInitFrame(k, existingInstance, cfg, found)
                 EXCEPT !.fx.ret = existingInstance]
        ELSE LET i == k.created + 1
                 k1 == instanceInitFrame(newInstance(k, cfg), i, cfg, found)
             IN  [k1 EXCEPT !.frames[cfg.frameId] = i, !.fx.ret = i]

SDKinit(k, cfg, found) ==
    IF k.rev = "index" THEN init(k, cfg, found) ELSE initV2(k, cfg, found)

\* a wrapper that lets the caller's mode win: { mode, ...config }
initWrapper_callerWins(k, w, cfg, found) ==
    SDKinit(k, Spread(Cfg(Undefined, Undefined, WrapperMode(w), Undefined),
                      cfg), found)

\* initManager .. initSystem: this.init({ ...config, mode })
initWrapper(k, w, cfg, found) ==
    SDKinit(k, [cfg EXCEPT !.mode = WrapperMode(w)], found)

\* init needs a fresh Instance
NeedsInstance(k, cfg) ==
    IF k.rev = "index" THEN findInstance(k, cfg.frameId) = 0
    ELSE k.frames[cfg.frameId] = 0

\* the number of Instances the Registry holds
RegistrySize ==
    IF revision = "index" THEN Len(sdk.instances)
    ELSE Cardinality({f \in FrameIds : frames[f] # 0})

(***************************************************************************)
(* The Path Resolver, getFramePath of src/src/utils/index.ts, called with  *)
(* configurations of every mode.  A configuration is given by its mode,    *)
(* id, rootPath and filter; requestToken, theme, locale and the selector   *)
(* and editor options are never set, so customUrlSearchParams drops them.  *)
(* A filter is an object: the one of defaultConfig, which a configuration  *)
(* shares after { ...defaultConfig, ...config } when the host supplied     *)
(* none, or an object of the caller's own, {} before the call.  Of a       *)
(* filter the model keeps count, folder and withSubfolders, and `object`, *)
(* false for the undefined filter of a configuration that has none.  A     *)
(* path is the sequence of the strings the code concatenates.              *)
(*   filter     defaultConfig.filter as it is now                          *)
(*   op         "resolve" once getFramePath was called                     *)
(*   arg        the configuration of the last call                         *)
(*   argFilter  the filter object of that configuration after the call     *)
(*   path       the path returned, NoPath when the call threw              *)
(*   threw      the call threw                                             *)
(***************************************************************************)
\* enum SDKMode
SDKModes == Modes \cup {"public-room"}

Filter(c, f, w) ==
    [object |-> TRUE, count |-> c, folder |-> f, withSubfolders |-> w]

\* config.filter of a configuration without filter
NoFilter == [object |-> FALSE, count |-> Undefined, folder |-> Undefined,
             withSubfolders |-> Undefined]

\* src/src/constants/index.ts: defaultConfig.filter
defaultFilter == Filter("100", Undefined, "false")

\* {}
EmptyFilter == Filter(Undefined, Undefined, Undefined)

\* config.id of the configurations resolved
Ids == {Undefined, "1", "2"}

PathCfg(m, i, r, f) == [mode |-> m, id |-> i, rootPath |-> r, filter |-> f]

\* the configurations getFramePath is called with; filter is "default"
\* (the object defaultConfig.filter), "own" ({}), or Undefined
ResolverConfigs ==
    {PathCfg(m, i, r, f) : m \in SDKModes, i \in Ids, r \in RootPaths,
                           f \in {Undefined, "default", "own"}}

NoResolver == [filter |-> defaultFilter, op |-> "none",
               arg |-> PathCfg(Undefined, Undefined, Undefined, Undefined),
               argFilter |-> NoFilter, path |-> NoPath, threw |-> FALSE]

\* customUrlSearchParams(data): the keys whose value is neither undefined
\* nor null, as a query string
customUrlSearchParams(data) ==
    IF ~data.object THEN <<>>
    ELSE (IF data.count # Undefined THEN <<"count=", data.count>> ELSE <<>>)
         \o (IF data.folder # Undefined THEN <<"folder=", data.folder>>
             ELSE <<>>)
         \o (IF data.withSubfolders # Undefined
             THEN <<"withSubfolders=", data.withSubfolders>> ELSE <<>>)

\* `/route${urlParams ? `?${urlParams}` : ""}`
Route(route, urlParams) ==
    IF urlParams = <<>> THEN <<route>> ELSE <<route, "?">> \o urlParams

\* baseEditorOptions.fileId
fileId(c) == IF c.id = Undefined THEN "-1" ELSE c.id

\* case SDKMode.Manager of getFramePath, called with a configuration whose
\* filter object is `filter`: the object is given the folder config.id and
\* loses a withSubfolders that is not true, and is left so
managerPath(c, filter) ==
    IF c.id # Undefined /\ ~filter.object
    THEN [path |-> NoPath, threw |-> TRUE, filter |-> filter]
    ELSE LET f1 == IF c.id # Undefined
                   THEN [filter EXCEPT !.folder = c.id] ELSE filter
             params == IF ~f1.object THEN f1
                       ELSE IF f1.withSubfolders # "true"
                       THEN [f1 EXCEPT !.withSubfolders = Undefined]
                       ELSE f1
         IN  [path |-> <<c.rootPath>>
                       \o (IF c.id # Undefined THEN <<c.id, "/">> ELSE <<>>)
                       \o <<"filter?">> \o customUrlSearchParams(params),
              threw |-> FALSE,
              filter |-> params]

\* getFramePath(config) where `filter` is the filter object of config: the
\* path, and the filter object as the call leaves it
FramePath(c, filter) ==
    CASE c.mode = "manager" -> managerPath(c, filter)
      [] c.mode = "room-selector" ->
             [path |-> Route("/sdk/room-selector", <<>>), threw |-> FALSE,
              filter |-> filter]
      [] c.mode = "file-selector" ->
             [path |-> Route("/sdk/file-selector",
                             IF c.id # Undefined THEN <<"id=", c.id>>
                             ELSE <<>>),
              threw |-> FALSE, filter |-> filter]
      [] c.mode = "public-room" ->
             [path |-> Route("/sdk/public-room",
                             IF c.id # Undefined THEN <<"folder=", c.id>>
                             ELSE <<>>),
              threw |-> FALSE, filter |-> filter]
      [] c.mode = "system" ->
             [path |-> Route("/old-sdk/system", <<>>), threw |-> FALSE,
              filter |-> filter]
      [] c.mode = "editor" ->
             [path |-> Route("/doceditor", <<"fileId=", fileId(c)>>),
              threw |-> FALSE, filter |-> filter]
      [] c.mode = "viewer" ->
             [path |-> Route("/doceditor",
                             <<"fileId=", fileId(c), "action=", "view">>),
              threw |-> FALSE, filter |-> filter]
      [] OTHER ->
             [path |-> <<c.rootPath>>, threw |-> FALSE, filter |-> filter]

\* the filter object of the configuration c while defaultConfig.filter is
\* shared
FilterOf(c, shared) ==
    CASE c.filter = "default" -> shared
      [] c.filter = "own" -> EmptyFilter
      [] OTHER -> NoFilter

\* one call getFramePath(c) as the resolver record sees it
resolve(v, c) ==
    LET r == FramePath(c, FilterOf(c, v.filter))
    IN  [filter |-> IF c.filter = "default" THEN r.filter ELSE v.filter,
         op |-> "resolve", arg |-> c, argFilter |-> r.filter,
         path |-> r.path, threw |-> r.threw]

(***************************************************************************)
(* Loading.  #assembleFrame appends the loader `${frameId}-loader` to the  *)
(* container (noLoader is false in manager mode) and #createIframe asks    *)
(* for the animation frame of the CSP check.  setIsLoaded() looks up the   *)
(* element with the frameId, returns when there is none, and asks for an   *)
(* animation frame that styles the parent of that element and then either *)
(* asks for the frame that removes the loader and calls onContentReady, or *)
(* calls onContentReady at once when it finds no loader.                   *)
(*   loader   the loader element is in the document                        *)
(*   csp      the CSP check of the last initFrame: "none", "raf" (frame    *)
(*            requested), "fetch" (validateCSP pending)                    *)
(*   raf1     the first frames of setIsLoaded not yet run, in order: the   *)
(*            element found under the frameId ("iframe", or "div" for a    *)
(*            placeholder), config.events at the call, and whether an      *)
(*            initFrame has succeeded since                                *)
(*   raf2     the frames that remove the loader, not yet run               *)
(*   calls    calls of setIsLoaded by command since the last successful    *)
(*            initFrame                                                    *)
(*   ready    calls of the host's onContentReady that setIsLoaded calls    *)
(*            made after the last successful initFrame have led to         *)
(*   fired    the step called the host's onContentReady                    *)
(*   styled   the element whose style the step set: "none", "own" (the     *)
(*            container and the iframe) or "host" (the placeholder and     *)
(*            its parent)                                                  *)
(***************************************************************************)
NoLoading == [loader |-> FALSE, csp |-> "none", raf1 |-> <<>>,
              raf2 |-> <<>>, calls |-> 0, ready |-> 0, fired |-> FALSE,
              styled |-> "none"]

\* what a step starts from: the effects of the step before are forgotten
Quiet(v) == [v EXCEPT !.fired = FALSE, !.styled = "none"]

\* typeof events?.onContentReady === "function"
hasContentReady(events) == events = "all"

\* the frames requested before a successful initFrame belong to the frame
\* it replaced
Outdated(q) == [n \in 1..Len(q) |-> [q[n] EXCEPT !.old = TRUE]]

\* what initFrame, having returned r, leaves: a new loader and the frame of
\* the CSP check requested
initFrameLoading(r, v) ==
    IF r.fx.result = "iframe"
    THEN [Quiet(v) EXCEPT !.loader = TRUE, !.csp = "raf", !.calls = 0,
                          !.ready = 0, !.raf1 = Outdated(@),
                          !.raf2 = Outdated(@)]
    ELSE Quiet(v)

\* destroyFrame, called in state s: the loader leaves the document with
\* the container
destroyFrameLoading(s, v) ==
    IF hasContainer(s.dom, s.config.frameId)
    THEN [Quiet(v) EXCEPT !.loader = FALSE]
    ELSE Quiet(v)

\* setIsLoaded() up to its requestAnimationFrame
requestLoaded(s, v) ==
    LET targetFrame == getElementById(s.dom, s.config.frameId)
    IN  IF targetFrame = "null" THEN v
        ELSE [v EXCEPT !.raf1 = Append(@, [target |-> targetFrame,
                                           events |-> s.config.events,
                                           old |-> FALSE])]

\* events?.onContentReady?.() of a frame requested with `entry`:
\* src/src/instance/index.ts reads this.config.events when the frame runs,
\* src/unnamed/part_001 took events when setIsLoaded was called
contentReady(s, v, entry) ==
    LET events == IF s.rev = "index" THEN s.config.events ELSE entry.events
    IN  IF hasContentReady(events)
        THEN [v EXCEPT !.fired = TRUE,
                       !.ready = IF entry.old THEN @ ELSE @ + 1]
        ELSE v

\* the first animation frame of setIsLoaded; the frame that styles
\* targetFrame itself follows it and is not kept apart
firstFrame(s, v) ==
    LET entry == Head(v.raf1)
        v1 == [Quiet(v) EXCEPT !.raf1 = Tail(@),
                               !.styled = IF entry.target = "div"
                                          THEN "host" ELSE "own"]
    IN  IF v1.loader
        THEN [v1 EXCEPT !.raf2 = Append(@, entry)]
        ELSE contentReady(s, v1, entry)

\* removeLoader, the second animation frame
secondFrame(s, v) ==
    contentReady(s, [Quiet(v) EXCEPT !.raf2 = Tail(@), !.loader = FALSE],
                 Head(v.raf2))

(***************************************************************************)
(* The state after `new SDKInstance(config)`: the host's page holds a      *)
(* placeholder under the host's frame id, or the host forgot it, and       *)
(* nothing under the default id.                                           *)
(***************************************************************************)
Init ==
    /\ revision \in {"index", "part_001"}
    /\ config \in ConstructorConfigs
    /\ isConnected = FALSE
    /\ callbacks = <<>>
    /\ tasks = <<>>
    /\ listening = FALSE
    /\ \E target \in {Placeholder, NoElem} :
          dom = [f \in FrameIds |->
                    IF f = HostFrameId THEN target ELSE NoElem]
    /\ classNames = EmptyString
    /\ frames = [f \in FrameIds |-> 0]
    /\ sdk = NewSDK
    /\ nextId = 1
    /\ sent = <<>>
    /\ invoked = <<>>
    /\ fx = NoFx
    /\ dropped = {}
    /\ phase = OtherPhase
    /\ burst = IdleBurst
    /\ answered = 0
    /\ view = NoView
    /\ paths = NoPaths
    /\ resolver = NoResolver
    /\ loading = NoLoading

\* the host calls a remote method other than setConfig
HostCall ==
    /\ nextId <= MaxCalls
    /\ Apply(executeMethod(St, GetFilesMethod), "call", Undefined)
    /\ UNCHANGED <<answered, sdk, view, paths, resolver, loading>>

\* the host calls setConfig(cfg) or setConfig()
HostSetConfig ==
    /\ nextId <= MaxCalls
    /\ \E given \in BOOLEAN, cfg \in SetConfigArgs \cup {EmptyCfg} :
          /\ given <=> cfg # EmptyCfg
          /\ Apply(setConfig(St, given, cfg), "setConfig", Undefined)
    /\ UNCHANGED <<answered, sdk, view, paths, resolver, loading>>

\* the host calls initFrame(cfg)
HostInitFrame ==
    /\ \E cfg \in HostConfigs :
          Apply(initFrame(St, cfg), "initFrame", Undefined)
    /\ UNCHANGED <<answered, sdk, view, paths, resolver, loading>>

\* the host calls destroyFrame()
HostDestroyFrame ==
    /\ Apply(destroyFrame(St), "destroyFrame", Undefined)
    /\ UNCHANGED <<answered, sdk, view, paths, resolver, loading>>

\* the iframe mounted under f fires its load event
FrameLoad ==
    \E f \in FrameIds :
        /\ dom[f].kind = "container" /\ dom[f].iframe /\ dom[f].pendingLoad
        /\ Apply(handleFrameLoad(St, f), "load", f)
        /\ UNCHANGED <<answered, sdk, view, paths, resolver, loading>>

\* the window delivers a message event to the attached listener
Receive ==
    /\ listening
    /\ \E e \in Inbound(config.frameId), throws \in BOOLEAN :
          LET r == OnMessage([St EXCEPT !.hostThrows = throws], e)
          IN  /\ NeedsId(e) => nextId <= MaxCalls
              /\ throws => r.fx.hostThrew
              /\ Apply(r, "message", Undefined)
    /\ UNCHANGED <<answered, sdk, view, paths, resolver, loading>>

Next ==
    \/ HostCall
    \/ HostSetConfig
    \/ HostInitFrame
    \/ HostDestroyFrame
    \/ FrameLoad
    \/ Receive

Spec == Init /\ [][Next]_vars

(***************************************************************************)
(* The Instance with a cooperating embedded application: destroyFrame is   *)
(* never called and the only messages are the application's answers, one   *)
(* method-return for each call posted to it, addressed to the Instance.    *)
(* The browser delivers every load event and every answer.                 *)
(***************************************************************************)
\* the embedded application answers the oldest call it has not answered
AppRespond ==
    /\ listening
    /\ answered < Len(sent)
    /\ Apply(OnMessage(St, MethodReturn(config.frameId)), "message", Undefined)
    /\ answered' = answered + 1
    /\ UNCHANGED <<sdk, view, paths, resolver, loading>>

NextLive ==
    \/ HostCall
    \/ HostSetConfig
    \/ HostInitFrame
    \/ FrameLoad
    \/ AppRespond

SpecLive ==
    /\ Init
    /\ [][NextLive]_vars
    /\ WF_vars(FrameLoad)
    /\ WF_vars(AppRespond)

(***************************************************************************)
(* The Registry and the host that uses it.                                 *)
(***************************************************************************)
\* The step that takes the Registry to k.
ApplySdk(k, op, arg) ==
    /\ sdk' = [instances |-> k.instances, frameIds |-> k.frameIds,
               created |-> k.created,
               fx |-> [k.fx EXCEPT !.op = op, !.arg = arg,
                                   !.again = /\ op = "init"
                                             /\ sdk.fx.op = "init"
                                             /\ sdk.fx.arg.frameId =
                                                    arg.frameId]]
    /\ frames' = k.frames
    /\ UNCHANGED <<revision, config, isConnected, callbacks, tasks,
                   listening, dom, classNames, nextId, sent, invoked, fx,
                   dropped, phase, burst, answered, view,
                   paths, resolver, loading>>

\* the host calls sdk.init(cfg), or sdk.initFrame(cfg) which is the same
SdkInit ==
    \E cfg \in SdkConfigs, found \in BOOLEAN :
        /\ NeedsInstance(SdkSt, cfg) => sdk.created < MaxInstances
        /\ ApplySdk(SDKinit(SdkSt, cfg, found), "init", cfg)

\* the host calls one of the per-mode wrappers
SdkInitMode ==
    \E w \in Wrappers, cfg \in SdkConfigs, found \in BOOLEAN :
        /\ NeedsInstance(SdkSt, cfg) => sdk.created < MaxInstances
        /\ ApplySdk(initWrapper(SdkSt, w, cfg, found), w, cfg)

\* the host calls destroyFrame() on an Instance the Registry returned:
\* delete sdkFrames[frameId]
SdkDestroyFrame ==
    \E i \in 1..sdk.created :
        ApplySdk([SdkSt EXCEPT !.frames[sdk.frameIds[i]] = 0,
                               !.fx.destroyed = i],
                 "destroyFrame", EmptyCfg)

\* the host calls setConfig(cfg) or setConfig() on an Instance the Registry
\* returned
SdkSetConfig ==
    \E i \in 1..sdk.created, cfg \in SdkConfigs \cup {defaultConfig} :
        ApplySdk([SdkSt EXCEPT !.frameIds[i] = cfg.frameId],
                 "setConfig", cfg)

NextSDK ==
    \/ SdkInit
    \/ SdkInitMode
    \/ SdkDestroyFrame
    \/ SdkSetConfig

SpecSDK == Init /\ [][NextSDK]_vars

(***************************************************************************)
(* The Instance on a page whose origin the CSP check may reject.  The host *)
(* initialises the frame, and again once a check was accepted; the browser *)
(* runs every animation frame it was asked for and validateCSP settles.    *)
(***************************************************************************)
\* the host calls initFrame(cfg)
CspInitFrame ==
    /\ view.csp \in {"none", "accepted"}
    /\ view.stage = "idle"
    /\ \E cfg \in HostConfigs :
          /\ Apply(initFrame(St, cfg), "initFrame", Undefined)
          /\ view' = assembledView(initFrame(St, cfg), view)
    /\ UNCHANGED <<answered, sdk, paths, resolver, loading>>

\* the animation frame #createIframe requested: validateCSP(config.src)
CspCheck ==
    /\ view.csp = "raf"
    /\ view' = [view EXCEPT !.csp = "fetch"]
    /\ UNCHANGED <<revision, config, isConnected, callbacks, tasks,
                   listening, dom, classNames, nextId, sent, invoked, fx,
                   dropped, phase, burst, answered, frames, sdk,
                   paths, resolver, loading>>

\* validateCSP resolves
CspAccept ==
    /\ view.csp = "fetch"
    /\ view' = [view EXCEPT !.csp = "accepted"]
    /\ UNCHANGED <<revision, config, isConnected, callbacks, tasks,
                   listening, dom, classNames, nextId, sent, invoked, fx,
                   dropped, phase, burst, answered, frames, sdk,
                   paths, resolver, loading>>

\* validateCSP rejects
CspReject ==
    /\ view.csp = "fetch"
    /\ view' = cspRejected(St, view)
    /\ UNCHANGED <<revision, config, isConnected, callbacks, tasks,
                   listening, dom, classNames, nextId, sent, invoked, fx,
                   dropped, phase, burst, answered, frames, sdk,
                   paths, resolver, loading>>

\* the first animation frame setIsLoaded requested
LoaderFrame ==
    /\ view.stage = "raf1"
    /\ view' = loaderFrame(view)
    /\ UNCHANGED <<revision, config, isConnected, callbacks, tasks,
                   listening, dom, classNames, nextId, sent, invoked, fx,
                   dropped, phase, burst, answered, frames, sdk,
                   paths, resolver, loading>>

\* the animation frame that removes the loader
RemoveLoaderFrame ==
    /\ view.stage = "raf2"
    /\ view' = removeLoader(view)
    /\ UNCHANGED <<revision, config, isConnected, callbacks, tasks,
                   listening, dom, classNames, nextId, sent, invoked, fx,
                   dropped, phase, burst, answered, frames, sdk,
                   paths, resolver, loading>>

NextCSP ==
    \/ CspInitFrame
    \/ FrameLoad
    \/ CspCheck
    \/ CspAccept
    \/ CspReject
    \/ LoaderFrame
    \/ RemoveLoaderFrame

SpecCSP ==
    /\ Init
    /\ [][NextCSP]_vars
    /\ WF_vars(CspCheck)
    /\ WF_vars(CspAccept \/ CspReject)
    /\ WF_vars(LoaderFrame)
    /\ WF_vars(RemoveLoaderFrame)

(***************************************************************************)
(* The Instance and the path cache: the host initialises the frame in      *)
(* manager or editor mode under a root path of its choice and destroys it. *)
(***************************************************************************)
\* Configurations the host passes to initFrame when it chooses the mode
PathConfigs ==
    {Cfg(HostFrameId, w, m, Undefined) : w \in {Undefined, "true"},
                                         m \in {Undefined, "editor"}}

\* the host calls initFrame({...cfg, rootPath})
PathInitFrame ==
    /\ \E cfg \in PathConfigs, rootPath \in RootPaths \cup {Undefined} :
          LET r == initFrame(St, cfg)
          IN  /\ Apply(r, "initFrame", Undefined)
              /\ paths' = initFramePaths(St, r, rootPath, paths)
    /\ UNCHANGED <<answered, sdk, view, resolver, loading>>

\* the host calls destroyFrame()
PathDestroyFrame ==
    /\ Apply(destroyFrame(St), "destroyFrame", Undefined)
    /\ paths' = destroyFramePaths(St, paths)
    /\ UNCHANGED <<answered, sdk, view, resolver, loading>>

NextPath ==
    \/ PathInitFrame
    \/ PathDestroyFrame
    \/ FrameLoad

SpecPath == Init /\ [][NextPath]_vars

(***************************************************************************)
(* The Path Resolver called again and again, by any Instance.              *)
(***************************************************************************)
\* getFramePath(c)
Resolve ==
    /\ \E c \in ResolverConfigs : resolver' = resolve(resolver, c)
    /\ UNCHANGED <<revision, config, isConnected, callbacks, tasks,
                   listening, dom, classNames, nextId, sent, invoked, fx,
                   dropped, phase, burst, answered, frames, sdk, view,
                   paths, loading>>

NextResolve ==
    \/ Resolve

SpecResolve == Init /\ [][NextResolve]_vars

(***************************************************************************)
(* The Instance, a host that also destroys the frame, and an embedded      *)
(* application that answers the calls posted to it in order, each with one *)
(* method-return; an answer may reach the window after the frame it came   *)
(* from was destroyed and a new one has loaded.                            *)
(***************************************************************************)
NextLate ==
    \/ HostCall
    \/ HostSetConfig
    \/ HostInitFrame
    \/ HostDestroyFrame
    \/ FrameLoad
    \/ AppRespond

SpecLate == Init /\ [][NextLate]_vars

(***************************************************************************)
(* The Instance while its frame loads: the host initialises and destroys   *)
(* the frame, the embedded application sends the command setIsLoaded, the  *)
(* CSP check settles either way and the browser runs the animation frames  *)
(* it was asked for, in the order of the requests.                         *)
(***************************************************************************)
\* the command setIsLoaded addressed to frame id f
SetIsLoadedCommand(f) ==
    Msg(TRUE, "object", f, OnCallCommand, "setIsLoaded", Undefined)

\* the host calls initFrame(cfg) while no CSP check is pending
LoadingInitFrame ==
    /\ loading.csp = "none"
    /\ \E cfg \in HostConfigs :
          LET r == initFrame(St, cfg)
          IN  /\ Apply(r, "initFrame", Undefined)
              /\ loading' = initFrameLoading(r, loading)
    /\ UNCHANGED <<answered, sdk, view, paths, resolver>>

\* the host calls destroyFrame()
LoadingDestroyFrame ==
    /\ Apply(destroyFrame(St), "destroyFrame", Undefined)
    /\ loading' = destroyFrameLoading(St, loading)
    /\ UNCHANGED <<answered, sdk, view, paths, resolver>>

\* the listener receives the command setIsLoaded
CommandSetIsLoaded ==
    /\ listening
    /\ loading.calls < MaxLoadedCalls
    /\ Len(loading.raf1) + Len(loading.raf2) < MaxFrames
    /\ LET r == OnMessage(St, SetIsLoadedCommand(config.frameId))
       IN  /\ Apply(r, "message", Undefined)
           /\ loading' = [requestLoaded(r, Quiet(loading))
                             EXCEPT !.calls = @ + 1]
    /\ UNCHANGED <<answered, sdk, view, paths, resolver>>

\* the animation frame #createIframe requested: validateCSP(config.src)
LoadingCspCheck ==
    /\ loading.csp = "raf"
    /\ loading' = [Quiet(loading) EXCEPT !.csp = "fetch"]
    /\ UNCHANGED <<revision, config, isConnected, callbacks, tasks,
                   listening, dom, classNames, nextId, sent, invoked, fx,
                   dropped, phase, burst, answered, frames, sdk, view,
                   paths, resolver>>

\* validateCSP resolves
LoadingCspAccept ==
    /\ loading.csp = "fetch"
    /\ loading' = [Quiet(loading) EXCEPT !.csp = "none"]
    /\ UNCHANGED <<revision, config, isConnected, callbacks, tasks,
                   listening, dom, classNames, nextId, sent, invoked, fx,
                   dropped, phase, burst, answered, frames, sdk, view,
                   paths, resolver>>

\* validateCSP rejects: the catch handler calls this.setIsLoaded()
LoadingCspReject ==
    /\ loading.csp = "fetch"
    /\ Len(loading.raf1) + Len(loading.raf2) < MaxFrames
    /\ loading' = requestLoaded(St, [Quiet(loading) EXCEPT !.csp = "none"])
    /\ UNCHANGED <<revision, config, isConnected, callbacks, tasks,
                   listening, dom, classNames, nextId, sent, invoked, fx,
                   dropped, phase, burst, answered, frames, sdk, view,
                   paths, resolver>>

\* the browser runs the oldest first frame of setIsLoaded
FirstFrame ==
    /\ loading.raf1 # <<>>
    /\ loading' = firstFrame(St, loading)
    /\ UNCHANGED <<revision, config, isConnected, callbacks, tasks,
                   listening, dom, classNames, nextId, sent, invoked, fx,
                   dropped, phase, burst, answered, frames, sdk, view,
                   paths, resolver>>

\* the browser runs the oldest frame that removes the loader
SecondFrame ==
    /\ loading.raf2 # <<>>
    /\ loading' = secondFrame(St, loading)
    /\ UNCHANGED <<revision, config, isConnected, callbacks, tasks,
                   listening, dom, classNames, nextId, sent, invoked, fx,
                   dropped, phase, burst, answered, frames, sdk, view,
                   paths, resolver>>

NextLoading ==
    \/ LoadingInitFrame
    \/ LoadingDestroyFrame
    \/ FrameLoad
    \/ CommandSetIsLoaded
    \/ LoadingCspCheck
    \/ LoadingCspAccept
    \/ LoadingCspReject
    \/ FirstFrame
    \/ SecondFrame

SpecLoading == Init /\ [][NextLoading]_vars

(***************************************************************************)
(* Properties.                                                             *)
(***************************************************************************)
\* ids of the calls that were posted and whose callback is still queued
InFlight == {i \in Range(callbacks) : i \in Range(sent)}

TaskIds == [i \in 1..Len(tasks) |-> tasks[i].id]

\* C1: at most one posted call awaits its response, and it is the oldest
\* pending one; a call is posted when it is issued only if it is the only
\* pending call; the pending calls behind the oldest one wait in the task
\* queue in the order they were issued.
C1_OneInFlight ==
    /\ Cardinality(InFlight) <= 1
    /\ callbacks # <<>> =>
          /\ InFlight \subseteq {Head(callbacks)}
          /\ TaskIds = Tail(callbacks)
    /\ callbacks = <<>> => tasks = <<>>
    /\ (fx.accepted # 0 /\ fx.accepted \in Range(fx.posted)) =>
          callbacks = <<fx.accepted>>

\* three calls pending, the first posted and two deferred
C1_Witness ==
    /\ Len(callbacks) = 3
    /\ InFlight = {Head(callbacks)}
    /\ Len(tasks) = 2

C3_RefusedCall ==
    [][(~isConnected /\ fx'.op = "call") =>
          /\ fx'.refused
          /\ fx'.posted = <<>>
          /\ fx'.cbs = <<>>
          /\ callbacks' = callbacks
          /\ tasks' = tasks
          /\ HasHandler(config', "onAppError") =>
                fx'.appError = connectErrorText]_vars

\* C4: a message whose data is not a string, or whose decoded frameId is
\* not the Instance's frameId, invokes no callback, no event handler and no
\* command, and leaves the connection flag, both queues and the
\* configuration unchanged.
C4_ForeignIgnored ==
    [][(/\ fx'.op = "message"
        /\ \/ fx'.data = "nonstring"
           \/ fx'.decFrameId # config.frameId) =>
          /\ fx'.cbs = <<>>
          /\ fx'.handler = "none"
          /\ fx'.appError = "none"
          /\ fx'.command = "none"
          /\ fx'.posted = <<>>
          /\ UNCHANGED <<isConnected, callbacks, tasks, config>>]_vars

\* a well-formed method-return for another frame arrived while a call of
\* this Instance was pending
C4_Witness ==
    /\ fx.op = "message"
    /\ fx.data = "object"
    /\ fx.decFrameId \in FrameIds \ {config.frameId}
    /\ callbacks # <<>>
    /\ isConnected

\* C5: every text that does not parse, or parses to null or to a value
\* that is not an object, is decoded to the error envelope (type error,
\* frameId "error"), and the listener handles it without throwing.
C5_ErrorEnvelope ==
    \A e \in MessageEvents :
        (/\ fx.op = "message"
         /\ e.string /\ e.json # "object"
         /\ fx.data = e.json) =>
            /\ ParseMessageData(e).type = ErrorType
            /\ ParseMessageData(e).frameId = "error"
            /\ fx.decFrameId = "error"
            /\ ~fx.threw

MountedFrames == {f \in FrameIds : dom[f].kind = "container" /\ dom[f].iframe}

\* C7: the connection flag is true only if an iframe of the Instance is
\* mounted and has fired load (and destroyFrame has not removed it), and a
\* call other than setConfig is posted only to an iframe that has fired
\* load.
C7_FlagMeansLoaded ==
    /\ isConnected =>
          /\ MountedFrames # {}
          /\ \A f \in MountedFrames : ~dom[f].pendingLoad
    /\ (fx.op = "call" /\ fx.posted # <<>>) =>
          ~dom[config.frameId].pendingLoad

\* C8: a callback pending when destroyFrame ran is never invoked.
C8_DroppedNeverInvoked == dropped \cap Range(invoked) = {}

\* callbacks were dropped by destroyFrame, the Instance was initialized
\* again, and a method-return has invoked the callback of a later call
C8_Witness ==
    /\ dropped # {}
    /\ fx.op = "message"
    /\ fx.cbs # <<>>
    /\ \A i \in dropped : i < Head(fx.cbs)

\* C9: between destroyFrame and the next initFrame no message and no host
\* call changes the callback queue, the task queue or the connection flag,
\* invokes a callback or an event handler of #processEvent, or posts a
\* message.
C9_InertWhenDestroyed ==
    [][(phase.st = "destroyed" /\ fx'.op \in {"call", "setConfig", "message"})
          => /\ UNCHANGED <<callbacks, tasks, isConnected>>
             /\ fx'.cbs = <<>>
             /\ fx'.handler = "none"
             /\ fx'.posted = <<>>]_vars

\* C10: with a cooperating embedded application and no destroyFrame, every
\* call accepted while the Instance is in the Connected state is eventually
\* posted and its callback is eventually invoked.
C10_EveryCallCompletes ==
    \A i \in 1..MaxCalls :
        [](( /\ fx.accepted = i
             /\ fx.op \in {"call", "setConfig"}
             /\ ConnectedState(St) )
           => <>(i \in Range(sent) /\ i \in Range(invoked)))

C20_WrapperForcesMode ==
    [][sdk'.fx.op \in Wrappers =>
          LET forced == [sdk'.fx.arg EXCEPT !.mode = WrapperMode(sdk'.fx.op)]
          IN  /\ sdk'.fx.ret = SDKinit(SdkSt, forced, TRUE).fx.ret
              /\ sdk'.fx.ret # 0
              /\ sdk'.fx.initOn = sdk'.fx.ret
              /\ sdk'.fx.initCfg = forced]_vars

\* initSystem was called with a config that asks for the viewer mode
C20_Witness ==
    /\ sdk.fx.op = "initSystem"
    /\ sdk.fx.arg.mode = "viewer"
    /\ sdk.fx.initCfg.mode = "system"
    /\ sdk.fx.initCfg.frameId = sdk.fx.arg.frameId

\* C12: when destroyFrame returns the message listener is detached, both
\* queues are empty, the connection flag is false, every container the
\* Instance had put into the document has been replaced by a placeholder
\* showing the destroy-text, and the frames map holds the Instance under no
\* frame id.
C12_DestroyCleansUp ==
    [][fx'.destroyed =>
          /\ ~listening'
          /\ callbacks' = <<>>
          /\ tasks' = <<>>
          /\ ~isConnected'
          /\ \A f \in FrameIds :
                dom[f].kind = "container" =>
                    /\ dom'[f].kind = "placeholder"
                    /\ dom'[f].text = "destroyText"
          /\ \A f \in FrameIds : frames'[f] # Self]_vars

\* C13: the placeholder destroyFrame restores in place of the container
\* under the Instance's frameId carries the class name of the host's
\* original placeholder.
C13_ClassRestored ==
    [][(fx'.destroyed /\ hasContainer(dom, config.frameId)) =>
          dom'[config.frameId].cls = HostClass]_vars

\* C14: an initFrame that finds no element under the configured frameId
\* returns null, creates no container, iframe or load handler, adds nothing
\* to the frames map, and leaves the connection flag, the listener and both
\* queues unchanged.
C14_InitWithoutTarget ==
    [][(getElementById(dom, config'.frameId) = "null"
          /\ fx'.op = "initFrame") =>
          /\ fx'.result = "null"
          /\ ~fx'.mounted
          /\ UNCHANGED <<dom, frames, classNames>>
          /\ UNCHANGED <<isConnected, listening, callbacks, tasks>>]_vars

\* initFrame was called while the document held no element under the
\* frameId and a setConfig call was pending
C14_Witness ==
    /\ fx.op = "initFrame"
    /\ fx.result = "null"
    /\ getElementById(dom, config.frameId) = "null"
    /\ \A f \in FrameIds : frames[f] = 0
    /\ \A f \in FrameIds : dom[f] = NoElem
    /\ callbacks # <<>>


\* C15: whenever validateCSP has rejected, an onAppError handler of the
\* configuration the frame was created with has been invoked with the
\* message of the validation error, and the frame eventually shows the
\* Loaded state: the loader is removed and onContentReady was reached,
\* whether or not the iframe fired load.
C15_CspRejectionUnblocks ==
    /\ []((/\ view.csp = "rejected"
           /\ HasHandler([events |-> view.events], "onAppError")) =>
              view.appError = cspErrorText)
    /\ (view.csp = "rejected") ~> (~view.loader /\ view.ready)

\* C16: when the listener handles a message of kind Error addressed to the
\* Instance and carrying an error, or a text that JSON.parse rejects, and
\* the configuration has an onAppError handler, that handler is invoked
\* with the error's message: the message the Error notification carries,
\* or the text of the parse failure.
C16_ErrorsRouted ==
    [][(/\ fx'.op = "message"
        /\ fx'.data \in {"invalid", "object"}
        /\ fx'.type \in {"none", ErrorType}
        /\ HasHandler(config, "onAppError")) =>
          \A e \in MessageEvents, throws \in BOOLEAN :
             (/\ e.string
              /\ \/ e.json = "invalid"
                 \/ /\ e.json = "object" /\ e.type = ErrorType
                    /\ e.frameId = config.frameId /\ e.payload # Undefined
              /\ Delivered(e, throws)) =>
                 fx'.appError =
                     IF e.json = "invalid" THEN parseErrorText
                     ELSE e.payload]_vars

\* C17: when a handler of the host that an inbound message invokes throws,
\* no exception leaves the listener, the queues and the connection flag
\* are what they are when the handler returns normally, and the listener
\* stays attached where it stays attached in the normal case.
C17_HandlerThrowContained ==
    [][(fx'.op = "message" /\ fx'.hostThrew) =>
          \A e \in MessagesTo(config.frameId) :
             Delivered(e, TRUE) =>
                 LET normal == OnMessage(St, e)
                 IN  /\ ~fx'.threw
                     /\ callbacks' = normal.callbacks
                     /\ tasks' = normal.tasks
                     /\ isConnected' = normal.isConnected
                     /\ listening' = normal.listening]_vars

\* C18: when the listener handles an event notification addressed to the
\* Instance whose event name has no function in config.events, no handler
\* and no callback is invoked, onAppError is not called, nothing is
\* thrown, nothing is posted and the Instance, the document and the frames
\* map stay as they were.
C18_UnhandledEventInert ==
    [][(fx'.op = "message" /\ fx'.type = OnEventReturn) =>
          \A e \in MessagesTo(config.frameId) :
             (/\ e.type = OnEventReturn
              /\ ~HasHandler(config, e.name)
              /\ Delivered(e, FALSE)) =>
                 /\ fx'.handler = "none"
                 /\ fx'.appError = "none"
                 /\ fx'.cbs = <<>>
                 /\ fx'.posted = <<>>
                 /\ ~fx'.threw /\ ~fx'.hostThrew
                 /\ UNCHANGED <<config, isConnected, callbacks, tasks,
                                listening, dom, classNames, frames, nextId,
                                sent, invoked>>]_vars

C18_Witness ==
    /\ fx.op = "message"
    /\ fx.type = OnEventReturn
    /\ fx.event = "onNoAccess"
    /\ fx.decFrameId = config.frameId
    /\ config.events = "all"
    /\ fx.handler = "none"
    /\ callbacks # <<>>

\* C19: when a method-return addressed to the Instance reaches a pending
\* callback, the promise of that call is resolved with the payload of the
\* method-return, and with an empty record when the method-return has no
\* payload.
C19_ResolvedWithPayload ==
    [][(fx'.op = "message" /\ fx'.type = OnMethodReturn
        /\ callbacks # <<>>) =>
          \A e \in MessagesTo(config.frameId) :
             (e.type = OnMethodReturn /\ Delivered(e, FALSE)) =>
                 /\ fx'.cbs = <<callbacks[1]>>
                 /\ fx'.cbArg =
                        IF e.payload = Undefined THEN EmptyRecord
                        ELSE e.payload]_vars

\* C21: when init constructs an Instance, because the frameId of its
\* config is not registered, the Instance it returns is in the instances
\* list (where the Registry keeps one) and the frames map maps the frameId
\* of the config to that Instance.
C21_NewInstanceRegistered ==
    [][(sdk'.fx.op = "init" /\ sdk'.fx.made) =>
          /\ revision = "index" => sdk'.fx.ret \in Range(sdk'.instances)
          /\ frames'[sdk'.fx.arg.frameId] = sdk'.fx.ret]_vars

\* C22: when the listener handles a method-return addressed to the Instance
\* while the task queue is not empty, the oldest task leaves the queue and
\* is posted to the iframe, whether or not a callback was pending, and no
\* exception leaves the listener.
C22_FollowUpSent ==
    [][(fx'.op = "message" /\ fx'.type = OnMethodReturn /\ tasks # <<>>) =>
          /\ tasks' = Tail(tasks)
          /\ fx'.posted = <<Head(tasks).id>>
          /\ ~fx'.threw]_vars

\* C23: a message invokes at most one callback, no callback is invoked
\* twice in the whole run, and a method-return addressed to the Instance
\* that finds the callback queue empty invokes nothing, posts nothing,
\* reports no error and leaves the Instance, the document and the frames
\* map as they were.
C23_SingleShot ==
    [][/\ fx'.op = "message" => Len(fx'.cbs) <= 1
       /\ \A i, j \in 1..Len(invoked') :
             invoked'[i] = invoked'[j] => i = j
       /\ (/\ fx'.op = "message" /\ fx'.type = OnMethodReturn
           /\ callbacks = <<>>) =>
             /\ fx'.cbs = <<>>
             /\ fx'.posted = <<>>
             /\ fx'.appError = "none"
             /\ ~fx'.threw
             /\ UNCHANGED <<config, isConnected, callbacks, tasks,
                            listening, dom, classNames, frames, nextId,
                            sent, invoked>>]_vars

\* calls were made and answered, and one more method-return has arrived
C23_Witness ==
    /\ fx.op = "message"
    /\ fx.type = OnMethodReturn
    /\ fx.cbs = <<>>
    /\ callbacks = <<>>
    /\ Len(invoked) >= 2

\* C24: a setConfig call made while the connection flag is false reports no
\* error and is accepted: its callback is appended to the callback queue,
\* and its envelope is posted at once when no other call is pending and
\* appended to the task queue, unposted, otherwise.
C24_SetConfigUnconnected ==
    [][(fx'.op = "setConfig" /\ ~isConnected) =>
          /\ fx'.appError = "none"
          /\ ~fx'.refused
          /\ fx'.accepted = nextId
          /\ callbacks' = Append(callbacks, nextId)
          /\ IF callbacks = <<>>
             THEN fx'.posted = <<nextId>> /\ tasks' = tasks
             ELSE /\ fx'.posted = <<>>
                  /\ Len(tasks') = Len(tasks) + 1
                  /\ tasks'[Len(tasks')].id = nextId]_vars

\* C25: when initFrame creates an iframe right after destroyFrame, under
\* the frameId the Instance had when it was destroyed, the path in the src
\* of the iframe is the one getFramePath computes from the configuration
\* initFrame has just set.
C25_PathFromNewConfig ==
    [][(/\ phase.st = "destroyed" /\ phase.direct
        /\ fx'.op = "initFrame" /\ fx'.result = "iframe"
        /\ config'.frameId = phase.frameId) =>
          paths'.src = getFramePath(config', paths'.rootPath)]_vars

\* C26: an initFrame call leaves the configuration that merges its
\* argument over the previous configuration, and that over the defaults:
\* a field the argument does not supply keeps the value it had; a
\* setConfig call merges its argument over the previous configuration.
C26_MergeKeepsEarlier ==
    [][/\ fx'.op = "initFrame" =>
             \E cfg \in HostConfigs :
                config' = Spread(Spread(defaultConfig, config), cfg)
       /\ fx'.op = "setConfig" =>
             \E cfg \in SetConfigArgs \cup {defaultConfig} :
                config' = Spread(config, cfg)]_vars

\* C27: while the Instance is registered under the frameId of its
\* configuration, which it is from a successful initFrame until
\* destroyFrame, no setConfig call and no inbound message changes that
\* frameId.
C27_FrameIdBound ==
    [][(/\ frames[config.frameId] = Self
        /\ fx'.op \in {"setConfig", "message"}) =>
          config'.frameId = config.frameId]_vars

\* C28: only a setConfig or initFrame call of the host changes the
\* configuration; the listener handling a message, a remote call, the load
\* event and destroyFrame leave it as it is.
C28_ConfigFrame ==
    [][config' # config => fx'.op \in {"setConfig", "initFrame"}]_vars

\* C29: an entry of the frames map is removed or replaced only by
\* destroyFrame or initFrame invoked on the Instance the entry holds, never
\* by a call on a different Instance.
C29_EntriesOwned ==
    [][\A f \in FrameIds :
          (frames[f] # 0 /\ frames'[f] # frames[f]) =>
             \/ sdk'.fx.op = "destroyFrame" /\ sdk'.fx.destroyed = frames[f]
             \/ sdk'.fx.op # "destroyFrame" /\ sdk'.fx.initOn = frames[f]]_vars

C31_ResolverPure ==
    [][resolver'.op = "resolve" =>
          /\ resolver'.filter = resolver.filter
          /\ resolver'.argFilter = FilterOf(resolver'.arg, resolver.filter)
          /\ resolver'.path =
                FramePath(resolver'.arg,
                          FilterOf(resolver'.arg, defaultFilter)).path]_vars

\* C32: getFramePath returns a path for a configuration of every mode and
\* does not throw; the path starts with the route of the mode:
\* /sdk/room-selector, /sdk/file-selector, /sdk/system, /doceditor for
\* editor and viewer (the viewer's with action=view), and for manager the
\* rootPath, then the id segment when there is an id, then the filter query.
C32_RouteByMode ==
    [][resolver'.op = "resolve" =>
          LET c == resolver'.arg
              path == resolver'.path
          IN  /\ ~resolver'.threw
              /\ path # NoPath
              /\ c.mode = "room-selector" => path[1] = "/sdk/room-selector"
              /\ c.mode = "file-selector" => path[1] = "/sdk/file-selector"
              /\ c.mode = "system" => path[1] = "/sdk/system"
              /\ c.mode \in {"editor", "viewer"} => path[1] = "/doceditor"
              /\ c.mode = "viewer" =>
                    \E n \in 1..(Len(path) - 1) :
                       path[n] = "action=" /\ path[n + 1] = "view"
              /\ c.mode = "manager" =>
                    LET head == IF c.id # Undefined
                                THEN <<c.rootPath, c.id, "/", "filter?">>
                                ELSE <<c.rootPath, "filter?">>
                    IN  /\ Len(path) >= Len(head)
                        /\ SubSeq(path, 1, Len(head)) = head]_vars

\* C33: when the load event of the iframe is handled the callback queue and
\* the task queue are empty, and a call the host issues as the next step
\* is accepted and posted at once.
C33_QueuesEmptyAtLoad ==
    [][/\ fx'.op = "load" => callbacks' = <<>> /\ tasks' = <<>>
       /\ (fx.op = "load" /\ fx'.op \in {"call", "setConfig"}) =>
             /\ fx'.accepted # 0
             /\ fx'.posted = <<fx'.accepted>>]_vars

\* C34: the method-return that answers a call which was posted before
\* destroyFrame, and whose callback destroyFrame cleared, invokes no
\* callback, whenever it is delivered.
C34_LateReturnInert ==
    [][(/\ answered' = answered + 1
        /\ sent[answered + 1] \in dropped) =>
          fx'.cbs = <<>>]_vars

\* C35: the setIsLoaded calls made since the last successful initFrame,
\* by command or by a CSP rejection, have led to at most one call of the
\* host's onContentReady, however the load event and the animation frames
\* interleave.
C35_ReadyOnce == loading.ready <= 1

\* C36: no step of setIsLoaded sets the style of the host's placeholder or
\* of the placeholder's parent, and none calls the host's onContentReady
\* while the frame is destroyed.
C36_LoadedOwnFrame ==
    /\ loading.styled # "host"
    /\ ~(loading.fired /\ phase.st = "destroyed")

\* C37: the Registry never holds two distinct Instances with the same
\* configured frameId.
C37_UniqueFrameId ==
    LET held == IF revision = "index"
                THEN {sdk.instances[n] : n \in 1..Len(sdk.instances)}
                ELSE {frames[f] : f \in FrameIds} \ {0}
    IN  \A i \in held, j \in held : i # j => sdk.frameIds[i] # sdk.frameIds[j]

\* C38: the task queue holds the envelopes of the pending calls other than
\* the oldest, in the order of their callbacks; its length is
\* max(0, Len(callbacks) - 1).
C38_TasksBehindOldest ==
    /\ Len(tasks) = IF Len(callbacks) > 1 THEN Len(callbacks) - 1 ELSE 0
    /\ \A i \in 1..Len(tasks) :
          /\ tasks[i].type = "method"
          /\ tasks[i].id = callbacks[i + 1]

\* a method-return has been answered with the next envelope and one more
\* call still waits behind it
C38_Witness ==
    /\ fx.op = "message"
    /\ fx.cbs # <<>>
    /\ fx.posted # <<>>
    /\ Len(callbacks) = 2
    /\ Len(tasks) = 1
    /\ tasks[1].id = callbacks[2]

====
